---- MODULE Spec2Model ----
(***************************************************************************)
(* Model of demo28.py, a deterministic prescription decision-support       *)
(* prototype: Cockcroft-Gault clearance estimate, renal category, allergy  *)
(* / duplicate / interaction checks, and the suggestion engine.            *)
(*                                                                         *)
(* Representation.                                                         *)
(*  - A Python str that the code inspects (lower(), upper(), "in") is a    *)
(*    sequence of one-character strings.  A str the code only copies       *)
(*    (dose instructions, notes, interaction texts) is a TLA+ string.      *)
(*  - An f-string is the tuple of its literal and interpolated pieces.     *)
(*  - Optional[T] is a sequence of length 0 (None) or 1 (the value).       *)
(*  - A dict is the sequence of its <<key, value>> items in insertion      *)
(*    order.                                                               *)
(*  - Clearances are held in tenths of mL/min (round(base, 1) has one      *)
(*    decimal), serum creatinine in tenths of mg/dL, weight in whole kg.   *)
(*  - The em dash of the source's literals is written "--".                *)
(***************************************************************************)
EXTENDS Integers, Sequences, FiniteSets, TLC

VARIABLES call, patient, candidate_key, medication, current_meds, ccr_arg,
          ccr, egfr_cat, ret, raised

vars == <<call, patient, candidate_key, medication, current_meds, ccr_arg,
          ccr, egfr_cat, ret, raised>>

-----------------------------------------------------------------------------
(* Optional values *)

None == <<>>

Some(x) == <<x>>

IsNone(o) == o = <<>>

Val(o) == o[1]

-----------------------------------------------------------------------------
(* str operations *)

UPPERCASE ==
  <<"A","B","C","D","E","F","G","H","I","J","K","L","M",
    "N","O","P","Q","R","S","T","U","V","W","X","Y","Z">>

LOWERCASE ==
  <<"a","b","c","d","e","f","g","h","i","j","k","l","m",
    "n","o","p","q","r","s","t","u","v","w","x","y","z">>

\* str.lower() and str.upper() on one character, as tables
ToLower ==
  [c \in {UPPERCASE[i] : i \in DOMAIN UPPERCASE} |->
     LOWERCASE[CHOOSE i \in DOMAIN UPPERCASE : UPPERCASE[i] = c]]

ToUpper ==
  [c \in {LOWERCASE[i] : i \in DOMAIN LOWERCASE} |->
     UPPERCASE[CHOOSE i \in DOMAIN LOWERCASE : LOWERCASE[i] = c]]

LowerChar(c) == IF c \in DOMAIN ToLower THEN ToLower[c] ELSE c

UpperChar(c) == IF c \in DOMAIN ToUpper THEN ToUpper[c] ELSE c

\* s.lower()
Lower(s) == [i \in 1..Len(s) |-> LowerChar(s[i])]

\* s.upper()
Upper(s) == [i \in 1..Len(s) |-> UpperChar(s[i])]

\* a in s, for two strs: a occurs as a contiguous run of s
StrIn(a, s) ==
  \E i \in 0..(Len(s) - Len(a)) : SubSeq(s, i + 1, i + Len(a)) = a

\* x in xs, for a list
ListIn(x, xs) == \E i \in 1..Len(xs) : xs[i] = x

\* k in d, for a dict
DictHas(d, k) == \E i \in 1..Len(d) : d[i][1] = k

\* d[k], for a key the dict has
DictGet(d, k) == d[CHOOSE i \in 1..Len(d) : d[i][1] = k][2]

-----------------------------------------------------------------------------
(* String literals of the source that the code inspects *)

s_amoxicillin == <<"a","m","o","x","i","c","i","l","l","i","n">>
s_enoxaparin  == <<"e","n","o","x","a","p","a","r","i","n">>
s_metformin   == <<"m","e","t","f","o","r","m","i","n">>
s_warfarin    == <<"w","a","r","f","a","r","i","n">>
s_contrast_media == <<"c","o","n","t","r","a","s","t","_","m","e","d","i","a">>

s_Amoxicillin == <<"A","m","o","x","i","c","i","l","l","i","n">>
s_Enoxaparin  == <<"E","n","o","x","a","p","a","r","i","n">>
s_Metformin   == <<"M","e","t","f","o","r","m","i","n">>

k_eGFR_ge50 == <<"e","G","F","R",">","=","5","0">>
k_eGFR_ge45 == <<"e","G","F","R",">","=","4","5">>
k_eGFR_ge30 == <<"e","G","F","R",">","=","3","0">>
k_30_49     == <<"3","0","-","4","9">>
k_30_44     == <<"3","0","-","4","4">>
k_lt30      == <<"<","3","0">>

-----------------------------------------------------------------------------
(* Data models *)

Patient(id, age, sex, weight_kg, height_cm, scr, allergies, pregnancy_status) ==
  [id |-> id, age |-> age, sex |-> sex, weight_kg |-> weight_kg,
   height_cm |-> height_cm, serum_creatinine_mg_dl |-> scr,
   allergies |-> allergies, pregnancy_status |-> pregnancy_status]

Medication(rxnorm, name, standard_dose, max_single_mg, notes, renal_adjustment) ==
  [rxnorm |-> rxnorm, name |-> name, standard_dose |-> standard_dose,
   max_single_mg |-> max_single_mg, notes |-> notes,
   renal_adjustment |-> renal_adjustment]

Suggestion(med, suggested_dose, rationale, warnings) ==
  [med |-> med, suggested_dose |-> suggested_dose, rationale |-> rationale,
   warnings |-> warnings]

-----------------------------------------------------------------------------
(* Small drug database *)

Amoxicillin ==
  Medication(Some("0001"), s_Amoxicillin, "500 mg PO TID for 7 days",
             Some(1000), Some("Common antibiotic for many infections"),
             Some(<< <<k_eGFR_ge50, "No adjustment">>,
                     <<k_30_49, "500 mg PO BID">>,
                     <<k_lt30, "Avoid or dose per specialist">> >>))

Enoxaparin ==
  Medication(Some("0002"), s_Enoxaparin,
             "1 mg/kg SC q12h (or 40 mg daily prophylaxis)",
             None, Some("LMWH -- requires renal dosing if eGFR<30"),
             Some(<< <<k_eGFR_ge30, "1 mg/kg q12h">>,
                     <<k_lt30, "1 mg/kg q24h (reduce frequency) - consult renal">> >>))

Metformin ==
  Medication(Some("0003"), s_Metformin, "500 mg PO BID, escalate as tolerated",
             None, Some("Check eGFR before initiation"),
             Some(<< <<k_eGFR_ge45, "No adjustment">>,
                     <<k_30_44, "Review risks; consider 50% reduction">>,
                     <<k_lt30, "Contraindicated">> >>))

DRUG_DB ==
  (s_amoxicillin :> Amoxicillin) @@ (s_enoxaparin :> Enoxaparin)
    @@ (s_metformin :> Metformin)

INTERACTION_DB ==
  (<<s_metformin, s_contrast_media>> :>
      "Hold metformin around iodinated contrast in CKD")
  @@ (<<s_enoxaparin, s_warfarin>> :>
      "Increased bleeding risk -- monitor INR & adjust")

-----------------------------------------------------------------------------
(* eGFR estimator *)

\* The integer nearest to num / den (den > 0), a tie going to the even one:
\* round() of Python 3.
RoundHalfEven(num, den) ==
  LET q == num \div den
      r == num % den
  IN  IF 2 * r < den THEN q
      ELSE IF 2 * r > den THEN q + 1
      ELSE IF q % 2 = 0 THEN q ELSE q + 1

\* A plausible slip: the comparison with "F" without upper()
is_female_exact_case(p) == p.sex = <<"F">>

\* patient.sex.upper() == "F"
is_female(p) == Upper(p.sex) = <<"F">>

\* A plausible slip: the 0.85 correction left out
cockcroft_gault_uncorrected(p) ==
  LET num == (140 - p.age) * Val(p.weight_kg) * 100 * 100
      den == 72 * Val(p.serum_creatinine_mg_dl) * 100
  IN  IF den = 0 THEN None
      ELSE IF den > 0 THEN Some(RoundHalfEven(num, den))
      ELSE Some(RoundHalfEven(-num, -den))

\* The try block, for a weight and a creatinine that are present.  The result
\* is in tenths of mL/min: with scr in tenths of mg/dL,
\* base = ((140 - age) * weight_kg) / (72 * scr / 10), times 85/100 for "F",
\* and round(base, 1) * 10 = round(base * 10).
cockcroft_gault(p) ==
  LET num == (140 - p.age) * Val(p.weight_kg) * 100
               * (IF is_female(p) THEN 85 ELSE 100)
      den == 72 * Val(p.serum_creatinine_mg_dl) * 100
  IN  IF den = 0 THEN None                    \* ZeroDivisionError, caught
      ELSE IF den > 0 THEN Some(RoundHalfEven(num, den))
      ELSE Some(RoundHalfEven(-num, -den))

\* A plausible slip: a missing lab read as zero clearance
estimate_missing_as_zero(p) ==
  IF IsNone(p.serum_creatinine_mg_dl) \/ IsNone(p.weight_kg) THEN Some(0)
  ELSE cockcroft_gault(p)

estimate_creatinine_clearance(p) ==
  IF IsNone(p.serum_creatinine_mg_dl) \/ IsNone(p.weight_kg) THEN None
  ELSE cockcroft_gault(p)

\* A plausible slip: the top band opened at 50 (ccr > 50)
categorize_egfr_open_at_50(c) ==
  IF IsNone(c) THEN None
  ELSE IF Val(c) > 500 THEN Some(k_eGFR_ge50)
  ELSE IF 300 <= Val(c) /\ Val(c) < 500 THEN Some(k_30_49)
  ELSE IF Val(c) < 300 THEN Some(k_lt30)
  ELSE None

categorize_egfr(c) ==
  IF IsNone(c) THEN None
  ELSE IF Val(c) >= 500 THEN Some(k_eGFR_ge50)
  ELSE IF 300 <= Val(c) /\ Val(c) < 500 THEN Some(k_30_49)
  ELSE IF Val(c) < 300 THEN Some(k_lt30)
  ELSE None

-----------------------------------------------------------------------------
(* Safety checks *)

\* A plausible slip: the containment test without lower()
allergy_matches_exact_case(a, med) == StrIn(a, med.name)

\* a.lower() in medication.name.lower()
allergy_matches(a, med) == StrIn(Lower(a), Lower(med.name))

RECURSIVE check_allergy_loop(_, _)
check_allergy_loop(allergies, med) ==
  IF allergies = <<>> THEN None
  ELSE LET a == Head(allergies)
       IN  IF allergy_matches(a, med)
           THEN Some(<<"Allergy match: patient allergic to ", a,
                       " -- avoid ", med.name>>)
           ELSE check_allergy_loop(Tail(allergies), med)

check_allergy(p, med) == check_allergy_loop(p.allergies, med)

\* A plausible slip: only the ordering (candidate, current) looked up
interaction_of_stored_order(cm, candidate) ==
  LET key == <<Lower(candidate.name), Lower(cm)>>
  IN  IF key \in DOMAIN INTERACTION_DB THEN <<<<INTERACTION_DB[key]>>>> ELSE <<>>

\* The body of the loop: what one current medication appends to warnings
interaction_of(cm, candidate) ==
  LET key     == <<Lower(candidate.name), Lower(cm)>>
      rev_key == <<Lower(cm), Lower(candidate.name)>>
  IN  IF key \in DOMAIN INTERACTION_DB THEN <<<<INTERACTION_DB[key]>>>>
      ELSE IF rev_key \in DOMAIN INTERACTION_DB THEN <<<<INTERACTION_DB[rev_key]>>>>
      ELSE <<>>

RECURSIVE check_interactions_loop(_, _, _)
check_interactions_loop(names, candidate, warnings) ==
  IF names = <<>> THEN warnings
  ELSE check_interactions_loop(Tail(names), candidate,
                               warnings \o interaction_of(Head(names), candidate))

check_interactions(current_med_names, candidate) ==
  check_interactions_loop(current_med_names, candidate, <<>>)

is_duplicate(current_med_names, candidate) ==
  ListIn(Lower(candidate.name),
         [i \in 1..Len(current_med_names) |-> Lower(current_med_names[i])])

\* [m.name for m in current_meds]
Names(meds) == [i \in 1..Len(meds) |-> meds[i].name]

-----------------------------------------------------------------------------
(* Core suggestion engine *)

\* A plausible slip: the fallback takes any ranged key ("-" in k) for a match
RECURSIVE fallback_loop_any_range(_, _, _, _)
fallback_loop_any_range(items, cat, suggested_dose, rationale_parts) ==
  IF items = <<>> THEN <<suggested_dose, rationale_parts>>
  ELSE LET k == Head(items)[1]
           v == Head(items)[2]
       IN  IF StrIn(<<"-">>, k)
           THEN fallback_loop_any_range(Tail(items), cat, v,
                  Append(rationale_parts,
                         <<"Renal adjustment applied for ", k, ": ", v>>))
           ELSE fallback_loop_any_range(Tail(items), cat, suggested_dose,
                                        rationale_parts)

\* The fallback loop over adj_rules.items(): state is <<suggested_dose, parts>>.
RECURSIVE fallback_loop(_, _, _, _)
fallback_loop(items, cat, suggested_dose, rationale_parts) ==
  IF items = <<>> THEN <<suggested_dose, rationale_parts>>
  ELSE LET k == Head(items)[1]
           v == Head(items)[2]
       IN  IF StrIn(<<"-">>, k) /\ cat = k
           THEN fallback_loop(Tail(items), cat, v,
                  Append(rationale_parts,
                         <<"Renal adjustment applied for ", k, ": ", v>>))
           ELSE fallback_loop(Tail(items), cat, suggested_dose, rationale_parts)

\* Python truth value of med.renal_adjustment: neither None nor an empty dict
HasRules(med) ==
  ~IsNone(med.renal_adjustment) /\ Val(med.renal_adjustment) # <<>>

\* Python truth value of egfr_cat: neither None nor ""
CatTruthy(cat) == ~IsNone(cat) /\ Val(cat) # <<>>

\* The "renal adjustment" block: <<suggested_dose, rationale_parts>>
renal_adjustment_block(med, cat) ==
  LET suggested_dose  == med.standard_dose
      rationale_parts == << <<"Standard dose: ", med.standard_dose>> >>
  IN  IF CatTruthy(cat) /\ HasRules(med)
      THEN LET adj_rules == Val(med.renal_adjustment)
           IN  IF DictHas(adj_rules, Val(cat))
               THEN <<DictGet(adj_rules, Val(cat)),
                      Append(rationale_parts,
                             <<"Renal adjustment applied for ", Val(cat), ": ",
                               DictGet(adj_rules, Val(cat))>>)>>
               ELSE fallback_loop(adj_rules, Val(cat), suggested_dose,
                                  rationale_parts)
      ELSE IF HasRules(med)
           THEN <<suggested_dose,
                  Append(rationale_parts,
                         <<"Renal adjustment possible but missing patient creatinine/weight -- clinician review needed">>)>>
           ELSE <<suggested_dose, rationale_parts>>

\* A plausible slip: the clearance disclosure appended before the checks
collect_warnings_clearance_first(p, med, meds, c) ==
  LET allergy_warn == check_allergy(p, med)
      w0 == IF ~IsNone(c)
            THEN << <<"Estimated CrCl (Cockcroft-Gault): ", Val(c), " mL/min">> >>
            ELSE <<>>
      w1 == IF ~IsNone(allergy_warn) THEN Append(w0, Val(allergy_warn)) ELSE w0
      w2 == IF is_duplicate(Names(meds), med)
            THEN Append(w1, <<"Duplicate therapy: patient is already on ", med.name>>)
            ELSE w1
  IN  w2 \o check_interactions(Names(meds), med)

\* The warnings in the order the code appends them
collect_warnings(p, med, meds, c) ==
  LET allergy_warn == check_allergy(p, med)
      w1 == IF ~IsNone(allergy_warn) THEN <<Val(allergy_warn)>> ELSE <<>>
      w2 == IF is_duplicate(Names(meds), med)
            THEN Append(w1, <<"Duplicate therapy: patient is already on ", med.name>>)
            ELSE w1
      w3 == w2 \o check_interactions(Names(meds), med)
  IN  IF ~IsNone(c)
      THEN Append(w3, <<"Estimated CrCl (Cockcroft-Gault): ", Val(c), " mL/min">>)
      ELSE w3

\* "; ".join(parts): the parts with the separator between consecutive ones
RECURSIVE Join(_, _)
Join(sep, parts) ==
  IF Len(parts) <= 1 THEN parts
  ELSE <<Head(parts), <<sep>> >> \o Join(sep, Tail(parts))

\* A plausible slip: the key looked up as given
lookup_key_as_given(key) == key

\* candidate_key.lower(), the key looked up in DRUG_DB
lookup_key(key) == Lower(key)

\* The result of a call: what was raised (None if nothing), the value returned,
\* and the locals ccr and egfr_cat at the return.
suggest_medication(p, key, meds) ==
  IF lookup_key(key) \notin DOMAIN DRUG_DB
  THEN [raised |-> Some("ValueError"), ret |-> None, ccr |-> None, egfr_cat |-> None]
  ELSE
    LET med == DRUG_DB[lookup_key(key)]
        c   == estimate_creatinine_clearance(p)
        cat == categorize_egfr(c)
        ra  == renal_adjustment_block(med, cat)
    IN  [raised   |-> None,
         ret      |-> Some(Suggestion(med, ra[1], Join("; ", ra[2]),
                                      collect_warnings(p, med, meds, c))),
         ccr      |-> c,
         egfr_cat |-> cat]

-----------------------------------------------------------------------------
(* Inputs *)

MaxAllergies == 2

MaxMeds == 2

MaxCcr == 600

\* Lists over S of length at most n
RECURSIVE ListsUpTo(_, _)
ListsUpTo(S, n) ==
  IF n = 0 THEN {<<>>}
  ELSE LET shorter == ListsUpTo(S, n - 1)
       IN  shorter \cup {Append(l, x) : l \in {m \in shorter : Len(m) = n - 1}, x \in S}

s_penicillin == <<"p","e","n","i","c","i","l","l","i","n">>

s_AMOX == <<"A","M","O","X">>

s_ENOX == <<"E","N","O","X">>

\* tenths of mg/dL: absent, 0, -1.6, 0.8, 1.6, 3.0
Creatinines == {None, Some(0), Some(-16), Some(8), Some(16), Some(30)}

\* Patients for the estimator: the clinical numbers vary
RenalPatients ==
  {Patient("P001", a, s, w, Some(155), c, <<>>, Some(FALSE)) :
     a \in {18, 40, 72, 95},
     s \in {<<"F">>, <<"f">>, <<"M">>, <<"m">>, <<"F","e">>, <<>>},
     w \in {None, Some(50), Some(60), Some(83)},
     c \in Creatinines}

\* Patients for the allergy check: the allergy list varies
AllergyPatients ==
  {Patient("P001", 72, <<"F">>, Some(60), Some(155), Some(16), al, Some(FALSE)) :
     al \in ListsUpTo({s_penicillin, s_amoxicillin, s_AMOX, <<>>}, MaxAllergies)}

\* Patients for the suggestion engine
Patients ==
  {Patient("P001", 72, s, w, Some(155), c, al, Some(FALSE)) :
     s \in {<<"F">>, <<"M">>}, w \in {None, Some(60)}, c \in Creatinines,
     al \in ListsUpTo({s_penicillin, s_ENOX}, MaxAllergies)}

\* Medications that are not in the catalog, and have no renal rules
Warfarin ==
  Medication(None, <<"W","a","r","f","a","r","i","n">>, "5 mg PO daily",
             None, None, None)

ContrastMedia ==
  Medication(None, <<"C","o","n","t","r","a","s","t","_","M","e","d","i","a">>,
             "per protocol", None, None, None)

\* Candidates of the checks
Candidates == {Amoxicillin, Enoxaparin, Metformin, Warfarin}

\* Current medications
MedPool == {Enoxaparin, Metformin, Warfarin, ContrastMedia}

MedLists == ListsUpTo(MedPool, MaxMeds)

CandidateKeys ==
  {s_enoxaparin, s_Amoxicillin, <<"M","E","T","F","O","R","M","I","N">>,
   s_warfarin}

Clearances == {None} \cup {Some(c) : c \in (-MaxCcr)..MaxCcr}

\* the patient and arguments of demo()
DemoPatient ==
  Patient("P001", 72, <<"F">>, Some(60), Some(155), Some(16),
          <<s_penicillin>>, Some(FALSE))

-----------------------------------------------------------------------------
(* One call of a function of the module per behaviour; the module keeps no  *)
(* state between calls.                                                     *)

Init ==
  /\ call = "none"
  /\ patient = None
  /\ candidate_key = None
  /\ medication = None
  /\ current_meds = None
  /\ ccr_arg = None
  /\ ccr = None
  /\ egfr_cat = None
  /\ ret = None
  /\ raised = None

CallEstimate ==
  /\ call = "none"
  /\ \E p \in RenalPatients :
       /\ patient' = Some(p)
       /\ ret' = estimate_creatinine_clearance(p)
  /\ call' = "estimate_creatinine_clearance"
  /\ UNCHANGED <<candidate_key, medication, current_meds, ccr_arg, ccr,
                 egfr_cat, raised>>

CallCategorize ==
  /\ call = "none"
  /\ \E c \in Clearances :
       /\ ccr_arg' = Some(c)
       /\ ret' = categorize_egfr(c)
  /\ call' = "categorize_egfr"
  /\ UNCHANGED <<patient, candidate_key, medication, current_meds, ccr,
                 egfr_cat, raised>>

CallCheckAllergy ==
  /\ call = "none"
  /\ \E p \in AllergyPatients, m \in Candidates :
       /\ patient' = Some(p)
       /\ medication' = Some(m)
       /\ ret' = check_allergy(p, m)
  /\ call' = "check_allergy"
  /\ UNCHANGED <<candidate_key, current_meds, ccr_arg, ccr, egfr_cat, raised>>

CallCheckInteractions ==
  /\ call = "none"
  /\ \E meds \in MedLists, m \in Candidates :
       /\ current_meds' = Some(meds)
       /\ medication' = Some(m)
       /\ ret' = check_interactions(Names(meds), m)
  /\ call' = "check_interactions"
  /\ UNCHANGED <<patient, candidate_key, ccr_arg, ccr, egfr_cat, raised>>

CallIsDuplicate ==
  /\ call = "none"
  /\ \E meds \in MedLists, m \in Candidates :
       /\ current_meds' = Some(meds)
       /\ medication' = Some(m)
       /\ ret' = is_duplicate(Names(meds), m)
  /\ call' = "is_duplicate"
  /\ UNCHANGED <<patient, candidate_key, ccr_arg, ccr, egfr_cat, raised>>

CallSuggest ==
  /\ call = "none"
  /\ \E p \in Patients, k \in CandidateKeys, meds \in MedLists :
       \E r \in {suggest_medication(p, k, meds)} :
           /\ patient' = Some(p)
           /\ candidate_key' = Some(k)
           /\ current_meds' = Some(meds)
           /\ ret' = r.ret
           /\ raised' = r.raised
           /\ ccr' = r.ccr
           /\ egfr_cat' = r.egfr_cat
  /\ call' = "suggest_medication"
  /\ UNCHANGED <<medication, ccr_arg>>

demo ==
  /\ call = "none"
  /\ \E r \in {suggest_medication(DemoPatient, s_enoxaparin, <<DRUG_DB[s_metformin]>>)} :
         /\ patient' = Some(DemoPatient)
         /\ candidate_key' = Some(s_enoxaparin)
         /\ current_meds' = Some(<<DRUG_DB[s_metformin]>>)
         /\ ret' = r.ret
         /\ raised' = r.raised
         /\ ccr' = r.ccr
         /\ egfr_cat' = r.egfr_cat
  /\ call' = "demo"
  /\ UNCHANGED <<medication, ccr_arg>>

Next ==
  \/ CallEstimate
  \/ CallCategorize
  \/ CallCheckAllergy
  \/ CallCheckInteractions
  \/ CallIsDuplicate
  \/ CallSuggest
  \/ demo

Spec == Init /\ [][Next]_vars

-----------------------------------------------------------------------------
(* Vocabulary of the properties *)

\* suggest_medication (called directly or by demo) has returned a Suggestion
SuggestReturned ==
  call \in {"suggest_medication", "demo"} /\ IsNone(raised) /\ ~IsNone(ret)

\* Two characters that are equal, or the two cases of one letter
SameCharNoCase(c, d) ==
  c = d \/ \E i \in DOMAIN UPPERCASE : {c, d} = {UPPERCASE[i], LOWERCASE[i]}

\* Two strs equal up to the case of their letters
SameNoCase(a, b) ==
  Len(a) = Len(b) /\ \A i \in 1..Len(a) : SameCharNoCase(a[i], b[i])

\* a occurs in s up to the case of the letters
OccursNoCase(a, s) ==
  \E off \in 0..(Len(s) - Len(a)) :
    \A j \in 1..Len(a) : SameCharNoCase(a[j], s[off + j])

ReviewClause ==
  "Renal adjustment possible but missing patient creatinine/weight -- clinician review needed"

IsAllergyWarning(w) == w[1] = "Allergy match: patient allergic to "

IsDuplicateWarning(w) == w[1] = "Duplicate therapy: patient is already on "

IsClearanceWarning(w) == w[1] = "Estimated CrCl (Cockcroft-Gault): "

IsInteractionWarning(w) ==
  \E pr \in DOMAIN INTERACTION_DB : w = <<INTERACTION_DB[pr]>>

\* The medication has renal-adjustment rules
RulesExist(med) ==
  med.renal_adjustment # None /\ Len(med.renal_adjustment[1]) > 0

-----------------------------------------------------------------------------
(* Properties *)

\* C1: whenever suggest_medication returns, the suggested dose is
\* rules[category] if the medication has renal-adjustment rules, the renal
\* category is known and the category label is an exact key of the rules; in
\* every other case (no rules, unknown category, no exact key) the suggested
\* dose is the medication's standard dose.
C1_DoseResolution ==
  SuggestReturned =>
    LET s   == ret[1]
        med == s.med
    IN  IF /\ RulesExist(med)
           /\ egfr_cat # None
           /\ \E i \in DOMAIN med.renal_adjustment[1] :
                 med.renal_adjustment[1][i][1] = egfr_cat[1]
        THEN \E i \in DOMAIN med.renal_adjustment[1] :
               /\ med.renal_adjustment[1][i][1] = egfr_cat[1]
               /\ s.suggested_dose = med.renal_adjustment[1][i][2]
        ELSE s.suggested_dose = med.standard_dose

\* C1 witness: a call returned a rule's dose, different from the standard dose
C1_Witness ==
  /\ SuggestReturned
  /\ egfr_cat = Some(k_30_49)
  /\ ret[1].med.name = s_Amoxicillin
  /\ ret[1].suggested_dose = "500 mg PO BID"
  /\ ret[1].suggested_dose # ret[1].med.standard_dose

\* C2: for a patient whose weight or serum creatinine is absent,
\* estimate_creatinine_clearance returns None (never a number), categorize_egfr
\* of None returns None, and suggest_medication for a medication with
\* adjustment rules returns the standard dose, a rationale holding the
\* "clinician review needed" clause, and no clearance warning.
C2_MissingData ==
  /\ (/\ call = "estimate_creatinine_clearance"
      /\ \/ patient[1].weight_kg = None
         \/ patient[1].serum_creatinine_mg_dl = None)
       => ret = None
  /\ (call = "categorize_egfr" /\ ccr_arg = Some(None)) => ret = None
  /\ (/\ SuggestReturned
      /\ \/ patient[1].weight_kg = None
         \/ patient[1].serum_creatinine_mg_dl = None
      /\ RulesExist(ret[1].med))
       => /\ ccr = None
          /\ egfr_cat = None
          /\ ret[1].suggested_dose = ret[1].med.standard_dose
          /\ \E i \in DOMAIN ret[1].rationale :
               ret[1].rationale[i] = <<ReviewClause>>
          /\ \A i \in DOMAIN ret[1].warnings :
               ~IsClearanceWarning(ret[1].warnings[i])

\* C2 witness: suggest_medication returned for a patient without a weight but
\* with a creatinine, for a medication with rules
C2_Witness ==
  /\ SuggestReturned
  /\ patient[1].weight_kg = None
  /\ patient[1].serum_creatinine_mg_dl = Some(16)
  /\ RulesExist(ret[1].med)
  /\ Len(ret[1].rationale) = 3

\* The labels the specification gives the three bands.  The character U+2265
\* is written ">=", as one character; the dash of the middle label is read as
\* the hyphen of the code's label.
spec_ge50  == <<">=","5","0">>
spec_30_49 == <<"3","0","-","4","9">>
spec_lt30  == <<"<","3","0">>

\* C3 as stated: None maps to None, and a numeric clearance to exactly one of
\* the labels ">=50" (U+2265, no prefix), "30-49", "<30" by the band it is in.
C3_Original ==
  call = "categorize_egfr" =>
    IF ccr_arg[1] = None THEN ret = None
    ELSE LET c == ccr_arg[1][1]
         IN  /\ c >= 500 => ret = Some(spec_ge50)
             /\ (300 <= c /\ c < 500) => ret = Some(spec_30_49)
             /\ c < 300 => ret = Some(spec_lt30)

\* C3 as amended: None maps to None, and every numeric clearance maps to
\* exactly one label, "eGFR>=50" for clearance >= 50, "30-49" (ASCII hyphen)
\* for 30 <= clearance < 50, "<30" for clearance < 30; none is left without.
C3_Bands ==
  call = "categorize_egfr" =>
    IF ccr_arg[1] = None THEN ret = None
    ELSE LET c == ccr_arg[1][1]
         IN  /\ ret # None
             /\ ret[1] \in {k_eGFR_ge50, k_30_49, k_lt30}
             /\ ret[1] = k_eGFR_ge50 <=> c >= 500
             /\ ret[1] = k_30_49 <=> (300 <= c /\ c < 500)
             /\ ret[1] = k_lt30 <=> c < 300

\* C3 witness: the clearance 50.0 was put in the top band
C3_Witness ==
  call = "categorize_egfr" /\ ccr_arg = Some(Some(500)) /\ ret = Some(k_eGFR_ge50)

\* C4: with a weight present and a serum creatinine present but zero or
\* negative, estimate_creatinine_clearance returns None, not a number.
C4_NonPositiveCreatinine ==
  (/\ call = "estimate_creatinine_clearance"
   /\ patient[1].weight_kg # None
   /\ patient[1].serum_creatinine_mg_dl # None
   /\ patient[1].serum_creatinine_mg_dl[1] <= 0)
    => ret = None

\* C5: suggest_medication raises if and only if no catalog key equals the
\* candidate key up to case; every other call returns a Suggestion.
C5_RaisesIffUnknownKey ==
  call = "suggest_medication" =>
    LET resolves == \E k \in DOMAIN DRUG_DB : SameNoCase(candidate_key[1], k)
    IN  /\ raised # None <=> ~resolves
        /\ raised # None => (raised = Some("ValueError") /\ ret = None)
        /\ raised = None =>
             /\ ret # None
             /\ \E k \in DOMAIN DRUG_DB :
                  SameNoCase(candidate_key[1], k) /\ ret[1].med = DRUG_DB[k]

\* C5 witness: a key in another case than the catalog's resolved, for a
\* patient without labs and with current medications
C5_Witness ==
  /\ call = "suggest_medication"
  /\ candidate_key = Some(s_Amoxicillin)
  /\ patient[1].serum_creatinine_mg_dl = None
  /\ Len(current_meds[1]) = MaxMeds
  /\ raised = None
  /\ ret[1].med = Amoxicillin

\* The advisory texts check_interactions owes for the current medications:
\* position n of the result is the text of the n-th current medication whose
\* unordered pair with the candidate, up to case, is a key of the table.
Interacts(a, b, pr) ==
  \/ SameNoCase(a, pr[1]) /\ SameNoCase(b, pr[2])
  \/ SameNoCase(a, pr[2]) /\ SameNoCase(b, pr[1])

Matching(names, cand) ==
  {i \in DOMAIN names : \E pr \in DOMAIN INTERACTION_DB : Interacts(cand, names[i], pr)}

IsInteractionsOf(res, names, cand) ==
  LET M == Matching(names, cand)
  IN  /\ Len(res) = Cardinality(M)
      /\ \A i \in M :
           \E pr \in DOMAIN INTERACTION_DB :
             /\ Interacts(cand, names[i], pr)
             /\ res[Cardinality({j \in M : j <= i})] = <<INTERACTION_DB[pr]>>

\* C6: the warnings of a returned Suggestion are, in this order, at most one
\* allergy advisory, at most one duplicate-therapy advisory, the interaction
\* advisories in current-medication order, then the clearance disclosure; the
\* disclosure is there if and only if the clearance is not None, and is then
\* the last element.
C6_WarningOrder ==
  SuggestReturned =>
    LET w     == ret[1].warnings
        names == [i \in DOMAIN current_meds[1] |-> current_meds[1][i].name]
        nA    == Cardinality({i \in DOMAIN w : IsAllergyWarning(w[i])})
        nD    == Cardinality({i \in DOMAIN w : IsDuplicateWarning(w[i])})
        nC    == Cardinality({i \in DOMAIN w : IsClearanceWarning(w[i])})
        nI    == Len(w) - nA - nD - nC
    IN  /\ nA <= 1 /\ nD <= 1 /\ nC <= 1 /\ nI >= 0
        /\ \A i \in 1..nA : IsAllergyWarning(w[i])
        /\ \A i \in (nA + 1)..(nA + nD) : IsDuplicateWarning(w[i])
        /\ IsInteractionsOf(SubSeq(w, nA + nD + 1, nA + nD + nI), names,
                            ret[1].med.name)
        /\ nC = 1 <=> ccr # None
        /\ nC = 1 => w[Len(w)] = <<"Estimated CrCl (Cockcroft-Gault): ", ccr[1], " mL/min">>

\* C6 witness: a returned Suggestion with all four kinds of warning
C6_Witness ==
  /\ SuggestReturned
  /\ Len(ret[1].warnings) = 4
  /\ IsAllergyWarning(ret[1].warnings[1])
  /\ IsDuplicateWarning(ret[1].warnings[2])
  /\ IsInteractionWarning(ret[1].warnings[3])
  /\ IsClearanceWarning(ret[1].warnings[4])

\* C7: check_interactions returns exactly one advisory for each current
\* medication whose unordered pair with the candidate name, up to case, is in
\* the interaction table in either ordering, none for the others, in the order
\* of the current medications; candidate Enoxaparin with current medication
\* Warfarin gives exactly one, and so does candidate Warfarin with Enoxaparin.
C7_Interactions ==
  call = "check_interactions" =>
    LET names == [i \in DOMAIN current_meds[1] |-> current_meds[1][i].name]
        cand  == medication[1].name
    IN  /\ IsInteractionsOf(ret, names, cand)
        /\ (SameNoCase(cand, s_enoxaparin) /\ Len(names) = 1
              /\ SameNoCase(names[1], s_warfarin)) => Len(ret) = 1
        /\ (SameNoCase(cand, s_warfarin) /\ Len(names) = 1
              /\ SameNoCase(names[1], s_enoxaparin)) => Len(ret) = 1

\* C7 witness: candidate Warfarin, the reverse of the stored ordering, with
\* Enoxaparin second among the current medications
C7_Witness ==
  /\ call = "check_interactions"
  /\ medication = Some(Warfarin)
  /\ current_meds = Some(<<Metformin, Enoxaparin>>)
  /\ ret = << <<"Increased bleeding risk -- monitor INR & adjust">> >>

\* What C8 holds of the demo's call, but for the clearance: category "30-49",
\* no rule key of enoxaparin equal to it, the standard dose unchanged, and a
\* warning disclosing the clearance.
DemoFallthrough ==
  /\ patient = Some(DemoPatient)
  /\ candidate_key = Some(s_enoxaparin)
  /\ current_meds = Some(<<Metformin>>)
  /\ raised = None
  /\ egfr_cat = Some(k_30_49)
  /\ \A i \in DOMAIN Enoxaparin.renal_adjustment[1] :
       Enoxaparin.renal_adjustment[1][i][1] # egfr_cat[1]
  /\ ret[1].med = Enoxaparin
  /\ ret[1].suggested_dose = "1 mg/kg SC q12h (or 40 mg daily prophylaxis)"
  /\ ret[1].warnings = << <<"Estimated CrCl (Cockcroft-Gault): ", ccr[1], " mL/min">> >>

\* C8 as stated: the demo's clearance estimate is 30.7 mL/min to one decimal
C8_Original == call = "demo" => (ccr = Some(307) /\ DemoFallthrough)

\* C8 as amended: for the demo's patient (72, "F", 60 kg, 1.6 mg/dL, allergy
\* penicillin, current medication metformin) and candidate "enoxaparin", the
\* clearance estimate is 30.1 mL/min, the category "30-49", no rule key of
\* enoxaparin equals it, and the standard dose is returned with one warning,
\* the clearance disclosure.
C8_Demo == call = "demo" => (ccr = Some(301) /\ DemoFallthrough)

\* C8 witness: demo has made its call
C8_Witness == call = "demo" /\ ret # None /\ ccr # None

\* C9: for weight > 0 and creatinine > 0 the estimate is the tenth nearest to
\* ((140 - age) * weight) / (72 * creatinine), times 0.85 if and only if the
\* sex is "F" or "f".  With r the result in tenths, scr in tenths and f in
\* hundredths: |r * 7200 * scr - (140 - age) * weight * 100 * f| * 2 <= 7200 * scr.
C9_CockcroftGault ==
  (/\ call = "estimate_creatinine_clearance"
   /\ patient[1].weight_kg # None
   /\ patient[1].serum_creatinine_mg_dl # None
   /\ patient[1].weight_kg[1] > 0
   /\ patient[1].serum_creatinine_mg_dl[1] > 0)
    => /\ ret # None
       /\ LET f   == IF patient[1].sex \in {<<"F">>, <<"f">>} THEN 85 ELSE 100
              den == 7200 * patient[1].serum_creatinine_mg_dl[1]
              num == (140 - patient[1].age) * patient[1].weight_kg[1] * 100 * f
              d   == ret[1] * den - num
          IN  2 * (IF d < 0 THEN -d ELSE d) <= den

\* C9 witness: the estimate of a patient of sex "f" carries the 0.85 factor
C9_Witness ==
  /\ call = "estimate_creatinine_clearance"
  /\ patient[1].sex = <<"f">>
  /\ patient[1].age = 72
  /\ patient[1].weight_kg = Some(60)
  /\ patient[1].serum_creatinine_mg_dl = Some(16)
  /\ ret = Some(301)

\* C10: check_allergy returns an advisory if and only if some allergy of the
\* patient occurs, up to case, in the medication's name, and the advisory is
\* the one of the first such allergy; allergy "penicillin" alone gives none
\* for Amoxicillin, allergy "amoxicillin" alone gives one.
C10_Allergy ==
  call = "check_allergy" =>
    LET al   == patient[1].allergies
        name == medication[1].name
        hits == {i \in DOMAIN al : OccursNoCase(al[i], name)}
    IN  /\ ret # None <=> hits # {}
        /\ hits # {} =>
             \E i \in hits :
               /\ \A j \in hits : i <= j
               /\ ret = Some(<<"Allergy match: patient allergic to ", al[i],
                               " -- avoid ", name>>)
        /\ (al = <<s_penicillin>> /\ name = s_Amoxicillin) => ret = None
        /\ (al = <<s_amoxicillin>> /\ name = s_Amoxicillin) => ret # None

\* C10 witness: two allergies match Amoxicillin and the first one is reported
C10_Witness ==
  /\ call = "check_allergy"
  /\ medication = Some(Amoxicillin)
  /\ patient[1].allergies = <<s_AMOX, s_amoxicillin>>
  /\ ret = Some(<<"Allergy match: patient allergic to ", s_AMOX,
                  " -- avoid ", s_Amoxicillin>>)

====
